---- MODULE Spec2Model ----
(***************************************************************************)
(* Model of pybliometrics.scopus.affiliation_search (AffiliationSearch)    *)
(* and pybliometrics.scopus.plumx_metrics (PlumXMetrics).                  *)
(*                                                                         *)
(* Python values are modelled as follows.                                  *)
(*   None            the record [t |-> "None"]                             *)
(*   a str           Str(s), s the sequence of its characters              *)
(*   a dict          a function whose DOMAIN is the set of keys present    *)
(*   a list          a sequence                                            *)
(*   a namedtuple    a record with the namedtuple's fields                 *)
(* A call's result is a record: its outcome ("return" or the exception     *)
(* raised), the value returned, the warning emitted (if any) and the log   *)
(* of the steps the call performed, in order.                              *)
(***************************************************************************)
EXTENDS Integers, Sequences, FiniteSets, TLC

VARIABLES cls, attrs, action, integrity, json, last

vars == <<cls, attrs, action, integrity, json, last>>

(***************************************************************************)
(* Bounds of the model.                                                    *)
(***************************************************************************)
MaxItems == 2
MaxVariants == 2
MaxCategories == 2
MaxTypes == 2
MaxSources == 1

(***************************************************************************)
(* Python values.                                                          *)
(***************************************************************************)
None == [t |-> "None"]
Str(s) == [t |-> "str", s |-> s]
List(items) == [t |-> "list", items |-> items]

\* dict.get(k, default)
Get(d, k, default) == IF k \in DOMAIN d THEN d[k] ELSE default

\* `x or None` for a list x
OrNone(out) == IF out = <<>> THEN None ELSE List(out)

\* `x or []` for an argument that is None or a list
OrEmpty(x) == IF x.t = "None" THEN <<>> ELSE x.items

\* sep.join(parts) on strings given as character sequences
RECURSIVE Join(_, _)
Join(parts, sep) ==
    IF parts = <<>> THEN <<>>
    ELSE IF Len(parts) = 1 THEN parts[1]
    ELSE parts[1] \o sep \o Join(Tail(parts), sep)

Ev(e, i) == [e |-> e, i |-> i]

SeqsUpTo(S, n) == UNION {[1..k -> S] : k \in 0..n}

(***************************************************************************)
(* Collaborators from pybliometrics.scopus.utils.                          *)
(***************************************************************************)
\* TRUE iff check_parameter_value raises ValueError
check_parameter_value(parameter, allowed) == parameter \notin allowed

\* TRUE iff check_field_consistency raises ValueError
check_field_consistency(needles, haystack) ==
    \E i \in 1..Len(needles) : needles[i] \notin haystack

IsEmptyValue(v) == v = None \/ v = Str(<<>>)

\* "raise", "warn" or "ok": what check_integrity does
check_integrity(tuples, fields, act) ==
    IF \E i \in 1..Len(tuples) : \E j \in 1..Len(fields) :
           IsEmptyValue(tuples[i][fields[j]])
    THEN act
    ELSE "ok"

(***************************************************************************)
(* AffiliationSearch.affiliations                                          *)
(***************************************************************************)
fields == {"eid", "name", "variant", "documents", "city", "country", "parent"}

\* a variant that keeps the entries equal to the name
variants_unfiltered(item) ==
    LET nv == Get(item, "name-variant", <<>>)
    IN [i \in 1..Len(nv) |-> Get(nv[i], "$", Str(<<>>))]

\* the list comprehension of lines 34-35
variants(item) ==
    LET name == Get(item, "affiliation-name", None)
        nv == Get(item, "name-variant", <<>>)
        all == [i \in 1..Len(nv) |-> Get(nv[i], "$", Str(<<>>))]
    IN SelectSeq(all, LAMBDA v : v # name)

\* a variant that swaps city and country
Affiliation_swapped(item) ==
    LET vs == variants(item)
    IN [eid |-> Get(item, "eid", None),
        variant |-> Str(Join([i \in 1..Len(vs) |-> vs[i].s], <<";">>)),
        documents |-> Get(item, "document-count", Str(<<"0">>)),
        name |-> Get(item, "affiliation-name", None),
        city |-> Get(item, "country", None),
        country |-> Get(item, "city", None),
        parent |-> Get(item, "parent-affiliation-id", None)]

\* a variant without the default of document-count
Affiliation_no_default(item) ==
    LET vs == variants(item)
    IN [eid |-> Get(item, "eid", None),
        variant |-> Str(Join([i \in 1..Len(vs) |-> vs[i].s], <<";">>)),
        documents |-> Get(item, "document-count", None),
        name |-> Get(item, "affiliation-name", None),
        city |-> Get(item, "city", None),
        country |-> Get(item, "country", None),
        parent |-> Get(item, "parent-affiliation-id", None)]

\* one pass of the loop body, lines 33-39: the namedtuple built from an item
Affiliation(item) ==
    LET vs == variants(item)
    IN [eid |-> Get(item, "eid", None),
        variant |-> Str(Join([i \in 1..Len(vs) |-> vs[i].s], <<";">>)),
        documents |-> Get(item, "document-count", Str(<<"0">>)),
        name |-> Get(item, "affiliation-name", None),
        city |-> Get(item, "city", None),
        country |-> Get(item, "country", None),
        parent |-> Get(item, "parent-affiliation-id", None)]

Raised(exc, log) == [outcome |-> exc, value |-> None, warned |-> FALSE, log |-> log]
Returned(value, warned, log) ==
    [outcome |-> "return", value |-> value, warned |-> warned, log |-> log]

MapLog(n) == [i \in 1..n |-> Ev("map", i)]

\* a variant that checks the field names only after the loop
affiliations_late_check(self_integrity, self_action, self_json) ==
    LET out == [i \in 1..Len(self_json) |-> Affiliation(self_json[i])]
        log == MapLog(Len(self_json)) \o <<Ev("check_field_consistency", 0)>>
    IN IF check_field_consistency(self_integrity, fields)
       THEN Raised("ValueError", log)
       ELSE LET verdict == check_integrity(out, self_integrity, self_action)
                log2 == log \o <<Ev("check_integrity", 0)>>
            IN IF verdict = "raise" THEN Raised("AttributeError", log2)
               ELSE Returned(OrNone(out), verdict = "warn", log2)

\* a variant that returns the records also when the integrity check fails
affiliations_never_raise(self_integrity, self_action, self_json) ==
    IF check_field_consistency(self_integrity, fields)
    THEN Raised("ValueError", <<Ev("check_field_consistency", 0)>>)
    ELSE LET out == [i \in 1..Len(self_json) |-> Affiliation(self_json[i])]
             log == <<Ev("check_field_consistency", 0)>>
                      \o MapLog(Len(self_json)) \o <<Ev("check_integrity", 0)>>
             verdict == check_integrity(out, self_integrity, self_action)
         IN Returned(OrNone(out), verdict # "ok", log)

\* a variant that returns the list as it is
affiliations_empty_list(self_integrity, self_action, self_json) ==
    IF check_field_consistency(self_integrity, fields)
    THEN Raised("ValueError", <<Ev("check_field_consistency", 0)>>)
    ELSE LET out == [i \in 1..Len(self_json) |-> Affiliation(self_json[i])]
             log == <<Ev("check_field_consistency", 0)>>
                      \o MapLog(Len(self_json)) \o <<Ev("check_integrity", 0)>>
             verdict == check_integrity(out, self_integrity, self_action)
         IN IF verdict = "raise" THEN Raised("AttributeError", log)
            ELSE Returned(List(out), verdict = "warn", log)

\* the property, lines 26-43
affiliations(self_integrity, self_action, self_json) ==
    IF check_field_consistency(self_integrity, fields)
    THEN Raised("ValueError", <<Ev("check_field_consistency", 0)>>)
    ELSE LET out == [i \in 1..Len(self_json) |-> Affiliation(self_json[i])]
             log == <<Ev("check_field_consistency", 0)>>
                      \o MapLog(Len(self_json)) \o <<Ev("check_integrity", 0)>>
             verdict == check_integrity(out, self_integrity, self_action)
         IN IF verdict = "raise" THEN Raised("AttributeError", log)
            ELSE Returned(OrNone(out), verdict = "warn", log)

(***************************************************************************)
(* AffiliationSearch.__init__ and AffiliationSearch.__str__                *)
(***************************************************************************)
allowed_actions == {"warn", "raise"}

Constructed(set, act, integ, response, log) ==
    [outcome |-> "return", attrs |-> set, action |-> act, integrity |-> integ,
     json |-> response, log |-> log]
NotConstructed(exc, set, log) ==
    [outcome |-> exc, attrs |-> set, action |-> "", integrity |-> <<>>,
     json |-> None, log |-> log]

SetLog(names) == [i \in 1..Len(names) |-> Ev("set", names[i])]
Range(s) == {s[i] : i \in 1..Len(s)}

AffiliationSearch_attrs == <<"_action", "_integrity", "_query", "_refresh", "_view">>

\* a variant that validates integrity_action after the assignments
AffiliationSearch_init_late_check(integrity_fields, integrity_action, response) ==
    IF check_parameter_value(integrity_action, allowed_actions)
    THEN NotConstructed("ValueError", Range(AffiliationSearch_attrs),
                        SetLog(AffiliationSearch_attrs)
                          \o <<Ev("check_parameter_value", integrity_action)>>)
    ELSE Constructed(Range(AffiliationSearch_attrs) \cup {"_json"},
                     integrity_action, OrEmpty(integrity_fields), response,
                     SetLog(AffiliationSearch_attrs)
                       \o <<Ev("check_parameter_value", integrity_action),
                            Ev("Search.__init__", "AffiliationSearch")>>)

\* the constructor, lines 93-104; response is what Search.__init__ loads
\* into _json (from the cache or freshly fetched)
AffiliationSearch_init(integrity_fields, integrity_action, response) ==
    IF check_parameter_value(integrity_action, allowed_actions)
    THEN NotConstructed("ValueError", {},
                        <<Ev("check_parameter_value", integrity_action)>>)
    ELSE Constructed(Range(AffiliationSearch_attrs) \cup {"_json"},
                     integrity_action, OrEmpty(integrity_fields), response,
                     <<Ev("check_parameter_value", integrity_action)>>
                       \o SetLog(AffiliationSearch_attrs)
                       \o <<Ev("Search.__init__", "AffiliationSearch")>>)

\* what make_search_summary builds from the names handed to it
make_search_summary(res) == Str(Join([i \in 1..Len(res) |-> res[i].s], <<"\n">>))

\* __str__, lines 106-109: a['affiliation-name'] raises KeyError on a
\* dict without the key
AffiliationSearch_str(self_json) ==
    IF \E i \in 1..Len(self_json) : "affiliation-name" \notin DOMAIN self_json[i]
    THEN Raised("KeyError", <<Ev("subscript", "affiliation-name")>>)
    ELSE Returned(make_search_summary(
                      [i \in 1..Len(self_json) |-> self_json[i]["affiliation-name"]]),
                  FALSE,
                  <<Ev("subscript", "affiliation-name"), Ev("make_search_summary", 0)>>)

(***************************************************************************)
(* PlumXMetrics                                                            *)
(* In a metric dict 'name' is a string and 'total' an integer; a key that  *)
(* is absent reads as None through dict.get, which is falsy like "" and 0. *)
(***************************************************************************)
TruthyName(m) == Get(m, "name", "") # ""
TruthyTotal(m) == Get(m, "total", 0) # 0

Metric(m) == [name |-> m["name"], total |-> m["total"]]

\* a variant that keeps a metric with a name or a total
_list_metrics_totals_any(metric_counts) ==
    LET kept == SelectSeq(metric_counts, LAMBDA m : TruthyName(m) \/ TruthyTotal(m))
    IN [i \in 1..Len(kept) |->
          [name |-> Get(kept[i], "name", ""), total |-> Get(kept[i], "total", 0)]]

\* lines 183-196
_list_metrics_totals(metric_counts) ==
    LET kept == SelectSeq(metric_counts, LAMBDA m : TruthyName(m) /\ TruthyTotal(m))
    IN [i \in 1..Len(kept) |-> Metric(kept[i])]

(***************************************************************************)
(* `cat_counts += ...` extends the list object cat_counts names in place.  *)
(* alias is 0 when that object is a fresh list, and i when it is the       *)
(* 'count_types' list of categories_list[i]: extending it then changes     *)
(* the stored JSON.  The result carries the list built and                 *)
(* categories_list as the loop leaves it.                                  *)
(***************************************************************************)
RECURSIVE CategoryLoop(_, _, _, _, _)
CategoryLoop(fresh, category_name, categories_list, i, acc) ==
    IF i > Len(categories_list)
    THEN [cat_counts |-> acc.val, categories_list |-> categories_list]
    ELSE LET item == categories_list[i]
         IN IF Get(item, "name", "") = category_name
            THEN IF ~fresh /\ acc.alias = 0 /\ acc.val = <<>>
                      /\ "count_types" \in DOMAIN item
                 THEN CategoryLoop(fresh, category_name, categories_list, i + 1,
                                   [val |-> item["count_types"], alias |-> i])
                 ELSE LET ext == acc.val \o Get(item, "count_types", <<>>)
                          after ==
                            IF acc.alias = 0 THEN categories_list
                            ELSE [categories_list EXCEPT
                                    ![acc.alias] = [k \in DOMAIN @ |->
                                        IF k = "count_types" THEN ext ELSE @[k]]]
                      IN CategoryLoop(fresh, category_name, after, i + 1,
                                      [val |-> ext, alias |-> acc.alias])
            ELSE CategoryLoop(fresh, category_name, categories_list, i + 1, acc)

\* a variant that starts from the first matching 'count_types' list itself
_category_metrics_aliased(category_name, categories_list) ==
    CategoryLoop(FALSE, category_name, categories_list, 1, [val |-> <<>>, alias |-> 0])

\* lines 172-180: cat_counts starts as a fresh list
_category_metrics(category_name, categories_list) ==
    CategoryLoop(TRUE, category_name, categories_list, 1, [val |-> <<>>, alias |-> 0])

categories(self_json) == Get(self_json, "count_categories", <<>>)

\* self._json after the loop of _category_metrics has run over its list
Stored(self_json, categories_list) ==
    IF "count_categories" \in DOMAIN self_json
    THEN [k \in DOMAIN self_json |->
            IF k = "count_categories" THEN categories_list ELSE self_json[k]]
    ELSE self_json

Read(value, self_json) == [res |-> Returned(value, FALSE, <<>>), json |-> self_json]

\* lines 19-27
category_totals(self_json) ==
    LET kept == SelectSeq(categories(self_json),
                          LAMBDA item : TruthyName(item) /\ TruthyTotal(item))
    IN Read(OrNone([i \in 1..Len(kept) |-> Metric(kept[i])]), self_json)

\* lines 36-38
capture(self_json) ==
    LET r == _category_metrics("capture", categories(self_json))
    IN Read(OrNone(_list_metrics_totals(r.cat_counts)),
            Stored(self_json, r.categories_list))

\* the loop of lines 50-54: source_metrics is a fresh list
RECURSIVE SourceMetrics(_)
SourceMetrics(citation_metrics) ==
    IF citation_metrics = <<>> THEN <<>>
    ELSE LET sources == Get(Head(citation_metrics), "sources", <<>>)
         IN sources \o SourceMetrics(Tail(citation_metrics))

\* lines 48-55
citation(self_json) ==
    LET r == _category_metrics("citation", categories(self_json))
    IN Read(OrNone(_list_metrics_totals(SourceMetrics(r.cat_counts))),
            Stored(self_json, r.categories_list))

\* lines 64-66
mention(self_json) ==
    LET r == _category_metrics("mention", categories(self_json))
    IN Read(OrNone(_list_metrics_totals(r.cat_counts)),
            Stored(self_json, r.categories_list))

\* lines 75-77
social_media(self_json) ==
    LET r == _category_metrics("socialMedia", categories(self_json))
    IN Read(OrNone(_list_metrics_totals(r.cat_counts)),
            Stored(self_json, r.categories_list))

\* lines 86-88
usage(self_json) ==
    LET r == _category_metrics("usage", categories(self_json))
    IN Read(OrNone(_list_metrics_totals(r.cat_counts)),
            Stored(self_json, r.categories_list))

\* __str__, lines 162-169: the comprehension iterates category_totals,
\* which raises TypeError when that is None
PlumXMetrics_str(self_json) ==
    LET totals == category_totals(self_json).res.value
    IN IF totals.t = "None"
       THEN Raised("TypeError", <<Ev("category_totals", 0)>>)
       ELSE Returned(List(<<[line |-> "received", name |-> "", total |-> 0]>>
                          \o [i \in 1..Len(totals.items) |->
                                [line |-> "category", name |-> totals.items[i].name,
                                 total |-> totals.items[i].total]]
                          \o <<[line |-> "as of", name |-> "", total |-> 0]>>),
                     FALSE,
                     <<Ev("category_totals", 0), Ev("get_cache_file_mdate", 0)>>)

allowed_id_types ==
    {"airitiDocId", "arxivId", "cabiAbstractId",
     "citeulikeId", "digitalMeasuresArtifactId", "doi",
     "elsevierId", "elsevierPii", "facebookCountUrlId",
     "figshareArticleId", "githubRepoId", "isbn",
     "lccn", "medwaveId", "nctId", "oclc",
     "pittEprintDscholarId", "pmcid", "pmid", "redditId",
     "repecHandle", "repoUrl", "scieloId", "sdEid",
     "slideshareUrlId", "smithsonianPddrId", "soundcloudTrackId",
     "ssrnId", "urlId", "usPatentApplicationId",
     "usPatentPublicationId", "vimeoVideoId", "youtubeVideoId"}

PlumXMetrics_attrs == <<"_id_type", "_identifier", "_refresh", "_view">>

\* the constructor, lines 141-160; response is what Retrieval.__init__
\* loads into _json
PlumXMetrics_init(id_type, response) ==
    IF check_parameter_value(id_type, allowed_id_types)
    THEN NotConstructed("ValueError", {}, <<Ev("check_parameter_value", id_type)>>)
    ELSE Constructed(Range(PlumXMetrics_attrs) \cup {"_json"}, "", <<>>, response,
                     <<Ev("check_parameter_value", id_type)>>
                       \o SetLog(PlumXMetrics_attrs)
                       \o <<Ev("Retrieval.__init__", "PlumXMetrics")>>)

(***************************************************************************)
(* The responses the collaborators may load.                               *)
(***************************************************************************)
KnownKeys == {"eid", "affiliation-name", "name-variant", "document-count",
              "city", "country", "parent-affiliation-id"}

VariantDicts == {[k \in K |-> v] : K \in SUBSET {"$"},
                                   v \in {Str(<<"a">>), Str(<<"b", "c">>)}}

Item(K, name, nv) ==
    [k \in K |->
        CASE k = "eid" -> Str(<<"e">>)
          [] k = "affiliation-name" -> name
          [] k = "name-variant" -> nv
          [] k = "document-count" -> Str(<<"7">>)
          [] k = "city" -> Str(<<"c">>)
          [] k = "country" -> Str(<<"k">>)
          [] k = "parent-affiliation-id" -> Str(<<"p">>)]

\* every subset of the known keys, with one or several name variants
AllItems ==
    {Item(K, name, nv) : K \in SUBSET KnownKeys,
                         name \in {Str(<<"a">>), Str(<<>>)},
                         nv \in SeqsUpTo(VariantDicts, MaxVariants)}

\* items that differ in the keys the integrity fields and __str__ read
SmallItems ==
    {Item(K, Str(<<"a">>), <<[k \in {"$"} |-> Str(<<"b", "c">>)]>>) :
        K \in {K \in SUBSET KnownKeys :
                 KnownKeys \ {"eid", "affiliation-name", "name-variant"} \subseteq K}}

AffiliationResponses == SeqsUpTo(SmallItems, MaxItems)

IntegrityArgs ==
    {None, List(<<"eid">>), List(<<"name">>), List(<<"variant">>),
     List(<<"eid", "name">>), List(<<"bogus">>), List(<<"eid", "bogus">>)}

ActionArgs == {"warn", "raise", "ignore"}

IdTypeArgs == {"doi", "pmid", "youtubeVideoId", "DOI", "eid"}

Tokens == {"capture", "citation", "mention", "socialMedia", "usage"}

\* dicts with any of the keys name and total
NameTotal(names, totals) ==
    {[k \in K |-> IF k = "name" THEN n ELSE t] :
        K \in SUBSET {"name", "total"}, n \in names, t \in totals}

Doc(categories_list) == [count_categories |-> categories_list]
Cat(name, count_types) == [name |-> name, total |-> 7, count_types |-> count_types]

\* a response without the count_categories key
NoCategories == [id_type |-> "doi"]

\* categories with or without a name and a total, and no count_types
ShellDocs ==
    {NoCategories} \cup
    {Doc(l) : l \in SeqsUpTo(NameTotal(Tokens, {0, 7}), MaxCategories)}

\* one category with every list of metric dicts
TypeDocs ==
    {Doc(<<Cat(c, l)>>) :
        c \in Tokens, l \in SeqsUpTo(NameTotal({"", "x", "y"}, {0, 1}), MaxTypes)}

SourceDicts == {[name |-> "x", total |-> 1], [name |-> "y", total |-> 1],
                [name |-> "y", total |-> 0]}

SourceEntries ==
    {[name |-> "s", total |-> 1]} \cup
    {[name |-> "s", total |-> 1, sources |-> l] :
        l \in SeqsUpTo(SourceDicts, MaxSources)}

\* the citation category with sources lists
SourceDocs == {Doc(<<Cat("citation", l)>>) : l \in SeqsUpTo(SourceEntries, MaxTypes)}

MultiCats ==
    {Cat(c, <<m>>) :
        c \in Tokens,
        m \in {[name |-> "x", total |-> 1,
                sources |-> <<[name |-> "y", total |-> 1]>>],
               [name |-> "y", total |-> 1,
                sources |-> <<[name |-> "x", total |-> 1]>>]}}

\* several categories, each with one metric
MultiDocs == {Doc(l) : l \in SeqsUpTo(MultiCats, MaxCategories)}

PlumXResponses == ShellDocs \cup TypeDocs \cup SourceDocs \cup MultiDocs

(***************************************************************************)
(* The state machine: an object is constructed, then its properties and    *)
(* its summary string are read, in any order and any number of times.      *)
(***************************************************************************)
NoCall == [op |-> "none", outcome |-> "none", value |-> None, warned |-> FALSE,
           log |-> <<>>]

Call(op, r) == [op |-> op, outcome |-> r.outcome, value |-> r.value,
                warned |-> r.warned, log |-> r.log]

Init ==
    /\ cls = "none"
    /\ attrs = {}
    /\ action = ""
    /\ integrity = <<>>
    /\ json = None
    /\ last = NoCall

Construct(name, r) ==
    /\ cls' = IF r.outcome = "return" THEN name ELSE "none"
    /\ attrs' = r.attrs
    /\ action' = r.action
    /\ integrity' = r.integrity
    /\ json' = r.json
    /\ last' = [op |-> name, outcome |-> r.outcome, value |-> None,
                warned |-> FALSE, log |-> r.log]

NewAffiliationSearch ==
    /\ cls = "none"
    /\ \E integrity_fields \in IntegrityArgs, integrity_action \in ActionArgs,
          response \in AffiliationResponses :
         Construct("AffiliationSearch",
                   AffiliationSearch_init(integrity_fields, integrity_action, response))

NewPlumXMetrics ==
    /\ cls = "none"
    /\ \E id_type \in IdTypeArgs, response \in PlumXResponses :
         Construct("PlumXMetrics", PlumXMetrics_init(id_type, response))

ReadAffiliations ==
    /\ cls = "AffiliationSearch"
    /\ last' = Call("affiliations", affiliations(integrity, action, json))
    /\ UNCHANGED <<cls, attrs, action, integrity, json>>

StrAffiliationSearch ==
    /\ cls = "AffiliationSearch"
    /\ last' = Call("__str__", AffiliationSearch_str(json))
    /\ UNCHANGED <<cls, attrs, action, integrity, json>>

ReadPlumX(op, r) ==
    /\ cls = "PlumXMetrics"
    /\ last' = Call(op, r.res)
    /\ json' = r.json
    /\ UNCHANGED <<cls, attrs, action, integrity>>

ReadCategoryTotals == ReadPlumX("category_totals", category_totals(json))
ReadCapture == ReadPlumX("capture", capture(json))
ReadCitation == ReadPlumX("citation", citation(json))
ReadMention == ReadPlumX("mention", mention(json))
ReadSocialMedia == ReadPlumX("social_media", social_media(json))
ReadUsage == ReadPlumX("usage", usage(json))

StrPlumXMetrics ==
    /\ cls = "PlumXMetrics"
    /\ last' = Call("__str__", PlumXMetrics_str(json))
    /\ UNCHANGED <<cls, attrs, action, integrity, json>>

Next ==
    \/ NewAffiliationSearch
    \/ NewPlumXMetrics
    \/ ReadAffiliations
    \/ StrAffiliationSearch
    \/ ReadCategoryTotals
    \/ ReadCapture
    \/ ReadCitation
    \/ ReadMention
    \/ ReadSocialMedia
    \/ ReadUsage
    \/ StrPlumXMetrics

Spec == Init /\ [][Next]_vars

(***************************************************************************)
(* The mapper alone: an AffiliationSearch whose response holds one item,   *)
(* drawn from every subset of the known keys; affiliations maps it.        *)
(***************************************************************************)
MapperInit ==
    /\ cls = "AffiliationSearch"
    /\ attrs = Range(AffiliationSearch_attrs) \cup {"_json"}
    /\ action = "raise"
    /\ integrity = <<>>
    /\ json \in {<<item>> : item \in AllItems}
    /\ last = NoCall

MapperNext == ReadAffiliations

MapperSpec == MapperInit /\ [][MapperNext]_vars

(***************************************************************************)
(* Properties.                                                             *)
(***************************************************************************)
\* the JSON key each field of an Affiliation record is read from
KeyOf == [eid |-> "eid", name |-> "affiliation-name", variant |-> "name-variant",
          documents |-> "document-count", city |-> "city", country |-> "country",
          parent |-> "parent-affiliation-id"]

Mapped(log) == {log[i].i : i \in {j \in 1..Len(log) : log[j].e = "map"}}

UnknownField == \E j \in 1..Len(integrity) :
                   integrity[j] \notin {"eid", "name", "variant", "documents",
                                        "city", "country", "parent"}

\* C1: reading affiliations with an integrity field that is not a field of
\* the record raises ValueError before any element of the JSON is mapped,
\* whatever the JSON holds and whatever the integrity action is.
C1_FieldNamesCheckedFirst ==
    (last.op = "affiliations" /\ UnknownField)
        => /\ last.outcome = "ValueError"
           /\ Mapped(last.log) = {}
           /\ last.log[1].e = "check_field_consistency"

C1_Witness ==
    /\ last.op = "affiliations"
    /\ UnknownField
    /\ Len(json) = MaxItems
    /\ action = "warn"
    /\ last.outcome = "ValueError"

\* the first element of the JSON whose record misses a required field
Missing(item, empties) ==
    \E j \in 1..Len(integrity) :
        \/ KeyOf[integrity[j]] \notin DOMAIN item
        \/ empties /\ integrity[j] = "variant" /\ variants(item) = <<>>

Violating(empties) == {i \in 1..Len(json) : Missing(json[i], empties)}

First(S) == CHOOSE i \in S : \A k \in S : i <= k

Collaborators(log) ==
    {i \in 1..Len(log) : log[i].e \in {"Search.__init__", "Retrieval.__init__"}}

SetAt(log, name) == {i \in 1..Len(log) : log[i] = Ev("set", name)}

\* C3: a constructor given a value outside its allow-list raises ValueError
\* before the collaborator is called and before any attribute is set; given
\* an allowed value it calls the collaborator exactly once, after _refresh
\* and _view are set.  The id_type allow-list holds 33 tokens.
C3_ParameterCheckedFirst ==
    /\ Cardinality(allowed_id_types) = 33
    /\ last.op \in {"AffiliationSearch", "PlumXMetrics"} =>
         LET given == last.log[1].i
             ok == IF last.op = "AffiliationSearch"
                   THEN given \in {"warn", "raise"}
                   ELSE given \in allowed_id_types
         IN /\ last.log[1].e = "check_parameter_value"
            /\ ~ok => /\ last.outcome = "ValueError"
                      /\ attrs = {}
                      /\ cls = "none"
                      /\ Len(last.log) = 1
            /\ ok => /\ last.outcome = "return"
                     /\ cls = last.op
                     /\ Cardinality(Collaborators(last.log)) = 1
                     /\ \A c \in Collaborators(last.log) :
                          /\ \E i \in SetAt(last.log, "_refresh") : i < c
                          /\ \E i \in SetAt(last.log, "_view") : i < c

C3_Witness ==
    /\ last.op = "AffiliationSearch"
    /\ last.log[1].i = "ignore"
    /\ last.outcome = "ValueError"

Usable(m) ==
    /\ "name" \in DOMAIN m /\ m["name"] # ""
    /\ "total" \in DOMAIN m /\ m["total"] # 0

TokenOf == [capture |-> "capture", citation |-> "citation", mention |-> "mention",
            social_media |-> "socialMedia", usage |-> "usage"]

Named(c, token) == "name" \in DOMAIN c /\ c["name"] = token

ListOf(d, k) == IF k \in DOMAIN d THEN d[k] ELSE <<>>

\* whether the response holds an element the property op makes a record of
Produces(op) ==
    LET cats == ListOf(json, "count_categories")
    IN CASE op = "affiliations" -> json # <<>>
         [] op = "category_totals" -> \E i \in 1..Len(cats) : Usable(cats[i])
         [] op = "citation" ->
              \E i \in 1..Len(cats) :
                 /\ Named(cats[i], "citation")
                 /\ \E j \in 1..Len(ListOf(cats[i], "count_types")) :
                      LET srcs == ListOf(cats[i]["count_types"][j], "sources")
                      IN \E k \in 1..Len(srcs) : Usable(srcs[k])
         [] OTHER ->
              \E i \in 1..Len(cats) :
                 /\ Named(cats[i], TokenOf[op])
                 /\ \E j \in 1..Len(ListOf(cats[i], "count_types")) :
                      Usable(cats[i]["count_types"][j])

ListProperties == {"affiliations", "category_totals", "capture", "citation",
                   "mention", "social_media", "usage"}

\* C4: a list-returning property returns None, never an empty list, when
\* the response yields no record, and a non-empty list otherwise.
C4_NoneNotEmptyList ==
    (last.op \in ListProperties /\ last.outcome = "return")
        => /\ last.value # List(<<>>)
           /\ Produces(last.op) => last.value.t = "list" /\ last.value.items # <<>>
           /\ ~Produces(last.op) => last.value = None

C4_Witness ==
    /\ last.op = "capture"
    /\ last.outcome = "return"
    /\ last.value = None
    /\ "count_categories" \in DOMAIN json
    /\ \E i \in 1..Len(json["count_categories"]) :
          /\ Named(json["count_categories"][i], "capture")
          /\ Len(ListOf(json["count_categories"][i], "count_types")) = MaxTypes

\* the item mapped and the record made of it, when the response holds one item
MappedOne == last.op = "affiliations" /\ last.outcome = "return" /\ Len(json) = 1

Absent(f) == KeyOf[f] \notin DOMAIN json[1]

\* C5 as stated: every subset of the known keys maps to a record without
\* an error, and a field whose key is absent holds the empty string, or
\* the zero count for documents.
C5_AbsentIsEmptyString ==
    (last.op = "affiliations" /\ Len(json) = 1)
        => /\ last.outcome = "return"
           /\ \A f \in DOMAIN KeyOf :
                Absent(f) => last.value.items[1][f] =
                               IF f = "documents" THEN Str(<<"0">>) ELSE Str(<<>>)

\* C5 amended: every subset of the known keys maps to a record without an
\* error, and a field whose key is absent holds None (eid, name, city,
\* country, parent), the empty string (variant) or the string '0'
\* (documents).
C5_AbsentIsDefault ==
    (last.op = "affiliations" /\ Len(json) = 1)
        => /\ last.outcome = "return"
           /\ DOMAIN last.value.items[1] = DOMAIN KeyOf
           /\ \A f \in DOMAIN KeyOf :
                Absent(f) => last.value.items[1][f] =
                               CASE f = "documents" -> Str(<<"0">>)
                                 [] f = "variant" -> Str(<<>>)
                                 [] OTHER -> None

C5_Witness ==
    /\ MappedOne
    /\ DOMAIN json[1] = {"city"}
    /\ last.value.items[1]["eid"] = None
    /\ last.value.items[1]["documents"] = Str(<<"0">>)

\* C6: when every known key is present, the record holds the value of each
\* key unchanged in eid, name, documents, city, country and parent.
C6_RoundTrip ==
    (MappedOne /\ DOMAIN json[1] = KnownKeys)
        => \A f \in DOMAIN KeyOf \ {"variant"} :
              last.value.items[1][f] = json[1][KeyOf[f]]

C6_Witness ==
    /\ MappedOne
    /\ DOMAIN json[1] = KnownKeys
    /\ Len(json[1]["name-variant"]) = MaxVariants
    /\ last.value.items[1]["city"] = Str(<<"c">>)
    /\ last.value.items[1]["country"] = Str(<<"k">>)

\* C7: a read of a property or of the summary string leaves the stored
\* JSON as it was, and a read repeated at once returns what it returned.
C7_ReadsLeaveJson ==
    [][(cls # "none" /\ cls' = cls)
          => /\ json' = json
             /\ last'.op = last.op => last' = last]_vars

C7_Witness ==
    /\ last.op = "capture"
    /\ last.value.t = "list"
    /\ Len(ListOf(json, "count_categories")) = 2
    /\ \A i \in 1..2 :
          /\ Named(json["count_categories"][i], "capture")
          /\ Len(ListOf(json["count_categories"][i], "count_types")) = 1

\* the '$' value of entry i of name-variant, the empty string without one
Dollar(item, i) ==
    LET d == item["name-variant"][i]
    IN IF "$" \in DOMAIN d THEN d["$"].s ELSE <<>>

\* the characters of the '$' values of the entries i.. in kept, each but
\* the last followed by a semicolon
RECURSIVE Semicolons(_, _, _)
Semicolons(item, i, kept) ==
    IF i > Len(item["name-variant"]) THEN <<>>
    ELSE LET rest == Semicolons(item, i + 1, kept)
             later == \E k \in kept : k > i
         IN IF i \in kept
            THEN Dollar(item, i) \o (IF later THEN <<";">> ELSE <<>>) \o rest
            ELSE rest

HasVariants == MappedOne /\ "name-variant" \in DOMAIN json[1]

\* C8 as stated: variant is the '$' values of all entries of name-variant,
\* in order, joined by ";".
C8_AllVariantsJoined ==
    HasVariants
        => last.value.items[1]["variant"] =
             Str(Semicolons(json[1], 1, 1..Len(json[1]["name-variant"])))

\* C8 amended: variant is the '$' values (the empty string for an entry
\* without one) of the entries of name-variant whose value differs from
\* affiliation-name, in order, joined by ";".
C8_OtherVariantsJoined ==
    /\ HasVariants
         => last.value.items[1]["variant"] =
              Str(Semicolons(json[1], 1,
                    {k \in 1..Len(json[1]["name-variant"]) :
                        \/ "affiliation-name" \notin DOMAIN json[1]
                        \/ Str(Dollar(json[1], k)) # json[1]["affiliation-name"]}))
    /\ (MappedOne /\ ~HasVariants) => last.value.items[1]["variant"] = Str(<<>>)

C8_Witness ==
    /\ MappedOne
    /\ "affiliation-name" \in DOMAIN json[1]
    /\ json[1]["affiliation-name"] = Str(<<"a">>)
    /\ "name-variant" \in DOMAIN json[1]
    /\ Len(json[1]["name-variant"]) = 2
    /\ Dollar(json[1], 1) = <<"a">>
    /\ Dollar(json[1], 2) = <<"b", "c">>
    /\ last.value.items[1]["variant"] = Str(<<"b", "c">>)

\* the usable entries of a list, in order, as (name, total) records
RECURSIVE Usables(_)
Usables(l) ==
    IF l = <<>> THEN <<>>
    ELSE (IF Usable(Head(l))
          THEN <<[name |-> Head(l)["name"], total |-> Head(l)["total"]]>>
          ELSE <<>>) \o Usables(Tail(l))

RECURSIVE SourcesUsables(_)
SourcesUsables(count_types) ==
    IF count_types = <<>> THEN <<>>
    ELSE Usables(ListOf(Head(count_types), "sources"))
           \o SourcesUsables(Tail(count_types))

\* category by category: the records of the matching categories' entries
RECURSIVE Expected(_, _)
Expected(op, cats) ==
    IF cats = <<>> THEN <<>>
    ELSE (IF Named(Head(cats), TokenOf[op])
          THEN IF op = "citation"
               THEN SourcesUsables(ListOf(Head(cats), "count_types"))
               ELSE Usables(ListOf(Head(cats), "count_types"))
          ELSE <<>>) \o Expected(op, Tail(cats))

SummaryPreconditions ==
    \/ cls = "PlumXMetrics"
    \/ cls = "AffiliationSearch"
         /\ ~UnknownField /\ (action = "raise" => Violating(TRUE) = {})

\* C10: the summary string is produced, without an exception, for every
\* response for which the record properties succeed.
C10_SummaryNeverRaises ==
    (last.op = "__str__" /\ SummaryPreconditions) => last.outcome = "return"

====
